---- MODULE Spec2Model ----
(***************************************************************************)
(* The agent stream transcoder (app/api/chat/agent-stream.ts) and the      *)
(* persistence mirror that reads its teed output (app/api/chat/route.ts).  *)
(*                                                                         *)
(* Text is a sequence of symbols.  A symbol is one character ("\n", " ",   *)
(* "{", "}") or an indivisible run of characters ("data:", "[DONE]", the   *)
(* body of a JSON object).  An optional value (a JSON key that may be      *)
(* missing, a JS value that may be undefined) is a sequence of length 0    *)
(* or 1.                                                                   *)
(***************************************************************************)
EXTENDS Naturals, Sequences, FiniteSets, TLC

\* ------------------------------------------------------------------ bounds
\* Lines the upstream writes while the transcoder is reading.
MaxLines == 4
\* Lines of text already in the pipe when the transcoder starts reading.
MaxPiped == 2
\* POST /api/chat requests the route receives.
MaxRequests == 2
\* Symbols of a thread identifier in a resume signal.
MaxThread == 3

\* ------------------------------------------------------------- text symbols
LF == "\n"
\* "data: ": the field name with its colon, then one space.
DataPrefix == <<"data:", " ">>
DoneSentinel == "[DONE]"
Whitespace == {" ", "\r", LF}

None == <<>>
Some(v) == <<v>>

\* String.prototype.trimEnd / trim on a sequence of symbols.
RECURSIVE TrimEnd(_)
TrimEnd(s) ==
  IF s # <<>> /\ s[Len(s)] \in Whitespace
  THEN TrimEnd(SubSeq(s, 1, Len(s) - 1))
  ELSE s

RECURSIVE TrimStart(_)
TrimStart(s) ==
  IF s # <<>> /\ s[1] \in Whitespace THEN TrimStart(Tail(s)) ELSE s

Trim(s) == TrimEnd(TrimStart(s))

\* String.prototype.startsWith and slice(n).
StartsWith(s, p) == Len(s) >= Len(p) /\ SubSeq(s, 1, Len(p)) = p
Slice(s, n) == SubSeq(s, n + 1, Len(s))

\* String.prototype.split("\n"): the segments between line feeds, at least one.
RECURSIVE SplitLines(_)
SplitLines(s) ==
  IF \A i \in 1..Len(s) : s[i] # LF
  THEN <<s>>
  ELSE LET k == CHOOSE i \in 1..Len(s) :
                  s[i] = LF /\ \A j \in 1..(i - 1) : s[j] # LF
       IN <<SubSeq(s, 1, k - 1)>> \o SplitLines(SubSeq(s, k + 1, Len(s)))

\* ------------------------------------------------------ upstream JSON objects
\* The object of one data line.  Each extension key is optional; choices is the
\* list of standard choices (empty when the key is missing).
Obj(ap, tr, ti, ch) ==
  [agent_progress |-> ap, tool_result |-> tr, tool_interrupt |-> ti, choices |-> ch]

\* choices[0]: "" stands for a missing or empty string, <<>> for a missing or
\* empty tool_calls array, "null" for finish_reason null.
Choice(reasoning, calls, content, fin) ==
  [delta |-> [reasoning_content |-> reasoning, tool_calls |-> calls, content |-> content],
   finish_reason |-> fin]

\* One element of delta.tool_calls; "" is a missing id or name, <<>> missing
\* arguments, None a missing index.
Fragment(idx, id, name, arguments) ==
  [index |-> Some(idx), id |-> id, name |-> name, arguments |-> arguments]
FragmentNoIndex(id, name, arguments) ==
  [index |-> None, id |-> id, name |-> name, arguments |-> arguments]

\* tc.index ?? 0 (line 165).
IndexOf(tc) == IF tc.index = None THEN 0 ELSE tc.index[1]

Progress     == [phase |-> "tools", message |-> "working", step |-> Some(1), total |-> None]
Progress2    == [phase |-> "tools", message |-> "working", step |-> Some(2), total |-> Some(2)]
ResultC1     == [toolCallId |-> "c1", toolName |-> "t1", result |-> Some("r1")]
ResultC2     == [toolCallId |-> "c2", toolName |-> "t2", result |-> Some("r2")]
InterruptC1  ==
  [toolCallId |-> "c1", toolName |-> "t1", prompt |-> "run t1?",
   details |-> "d1", thread_id |-> "th:1"]

Bodies ==
  {"progress", "progress2", "result", "result2", "interrupt", "progress+result", "result+interrupt",
   "call", "call_open", "call_close", "call2", "call_fin", "fin_tools",
   "call_rest", "call_rename", "text", "delta", "stop", "reasoning"}

\* JSON.parse of the object whose body is b.
Payload(b) ==
  CASE b = "progress"  -> Obj(Some(Progress), None, None, <<>>)
    [] b = "progress2" -> Obj(Some(Progress2), None, None, <<>>)
    [] b = "result"    -> Obj(None, Some(ResultC1), None, <<>>)
    [] b = "result2"   -> Obj(None, Some(ResultC2), None, <<>>)
    [] b = "interrupt" -> Obj(None, None, Some(InterruptC1), <<>>)
    [] b = "progress+result"  -> Obj(Some(Progress), Some(ResultC1), None, <<>>)
    [] b = "result+interrupt" -> Obj(None, Some(ResultC1), Some(InterruptC1), <<>>)
    [] b = "call" ->
         Obj(None, None, None,
             <<Choice("", <<Fragment(0, "c1", "t1", <<"{", "}">>)>>, "", "null")>>)
    [] b = "call_open" ->
         Obj(None, None, None,
             <<Choice("", <<Fragment(0, "c1", "t1", <<"{">>)>>, "", "null")>>)
    [] b = "call_close" ->
         Obj(None, None, None,
             <<Choice("", <<Fragment(0, "", "", <<"}">>)>>, "", "null")>>)
    [] b = "call2" ->
         Obj(None, None, None,
             <<Choice("", <<Fragment(1, "c2", "t2", <<"{", "}">>)>>, "", "null")>>)
    [] b = "call_fin" ->
         Obj(None, None, None,
             <<Choice("", <<Fragment(0, "c1", "t1", <<"{", "}">>)>>, "", "tool_calls")>>)
    [] b = "fin_tools" -> Obj(None, None, None, <<Choice("", <<>>, "", "tool_calls")>>)
    [] b = "call_rest" ->
         Obj(None, None, None,
             <<Choice("", <<FragmentNoIndex("", "", <<"}">>)>>, "", "null")>>)
    [] b = "call_rename" ->
         Obj(None, None, None,
             <<Choice("", <<Fragment(0, "c3", "t3", <<>>)>>, "", "null")>>)
    [] b = "delta"     -> Obj(None, None, None, <<Choice("", <<>>, "", "null")>>)
    [] b = "text"      -> Obj(None, None, None, <<Choice("", <<>>, "Hi", "null")>>)
    [] b = "stop"      -> Obj(None, None, None, <<Choice("", <<>>, "", "stop")>>)
    [] b = "reasoning" -> Obj(None, None, None, <<Choice("hm", <<>>, "", "null")>>)

\* JSON.parse of a payload text: the object, or None when it throws.
JsonParse(raw) ==
  IF Len(raw) = 3 /\ raw[1] = "{" /\ raw[3] = "}" /\ raw[2] \in Bodies
  THEN Some(Payload(raw[2]))
  ELSE None

\* JSON.parse of accumulated tool-call arguments: only "{}" is valid JSON over
\* the argument symbols "{" and "}".
ArgsAreJson(args) == args = <<"{", "}">>

\* The text of the lines the upstream writes (without the line feed).
DataLine(b) == DataPrefix \o <<"{", b, "}">>
DoneLine    == DataPrefix \o <<DoneSentinel>>
BrokenLine  == DataPrefix \o <<"{", "text">>
KeepAlive   == <<": ping">>
BlankLine   == <<>>
CrLine      == DataPrefix \o <<" ", "{", "text", "}", "\r">>
NoSpaceLine == <<"data:", "{", "text", "}">>

\* -------------------------------------------------------------- transcoder
VARIABLES
  src,                  \* text in the source stream that is not read yet
  plan,                 \* the lines the upstream may still write, in order
  received,             \* history: all text read from the source so far
  buffer,               \* the partial line kept between chunks
  toolCallMap,          \* Map<number, ToolCallAcc>, in insertion order
  hadToolCalls,
  step2Started,
  progressAnnotations,  \* annotations buffered until step 2 opens
  lineNo,               \* history: number of processLine calls so far
  out,                  \* records enqueued on the output stream, in order
  calls,                \* onInterrupt invocations, in order
  closed,               \* controller.close() was called
  saved,                \* saveAgentStream returned
  messages              \* rows written by prisma.message.create

\* The chat route around the transcoder (route.ts) and the interrupt store.
VARIABLES
  store,                \* the Map of the interrupt store: chatId -> payload
  reqs,                 \* POST handlers that are waiting at an await
  runs,                 \* transcoding runs the route started, with their mirrors
  response,             \* the body of the last GET response
  fetches,              \* history: the requests the route sent to the agent server
  posted                \* history: number of POST requests received

run == <<buffer, toolCallMap, hadToolCalls, step2Started, progressAnnotations,
         lineNo, out, calls>>
route == <<store, reqs, runs, response, fetches, posted>>
stream == <<src, plan, received, run, closed, saved>>
vars == <<src, plan, received, buffer, toolCallMap, hadToolCalls, step2Started,
          progressAnnotations, lineNo, out, calls, closed, saved, messages,
          store, reqs, runs, response, fetches, posted>>

\* Conversation identifiers.
Chats == {"A", "B"}

ZERO_USAGE == [promptTokens |-> 0, completionTokens |-> 0]

\* randomMsgId: the n-th identifier drawn; draws are distinct.
RandomMsgId(n) == <<"msg", n>>
step1Id == RandomMsgId(1)
step2Id == RandomMsgId(2)

\* The closure state of one convertAgentStream call as a record.
State ==
  [toolCallMap |-> toolCallMap, hadToolCalls |-> hadToolCalls,
   step2Started |-> step2Started, progressAnnotations |-> progressAnnotations,
   lineNo |-> lineNo, out |-> out, calls |-> calls]

\* emit(vai(type, value)): one record "<type>:<JSON>\n" is enqueued.  `line` is
\* history: the processLine call that emitted it (0 for start()).
Emit(s, type, value) ==
  [s EXCEPT !.out = Append(@, [tag |-> type, val |-> value, line |-> s.lineNo])]

\* onInterrupt?.(data); `seen` is history: the records enqueued before the call.
OnInterrupt(s, data) ==
  [s EXCEPT !.calls = Append(@, [data |-> data, line |-> s.lineNo, seen |-> Len(s.out)])]

\* An ensureStep2Open that flushes the buffered annotations before it opens
\* the step.
EnsureStep2OpenFlushFirst(s) ==
  IF ~s.step2Started
  THEN LET s1 == IF Len(s.progressAnnotations) > 0
                 THEN [Emit(s, "2", s.progressAnnotations) EXCEPT !.progressAnnotations = <<>>]
                 ELSE s
       IN Emit([s1 EXCEPT !.step2Started = TRUE], "f", [messageId |-> step2Id])
  ELSE s

\* ensureStep2Open (lines 79-89).
EnsureStep2Open(s) ==
  IF ~s.step2Started
  THEN LET s1 == Emit([s EXCEPT !.step2Started = TRUE], "f", [messageId |-> step2Id])
       IN IF Len(s1.progressAnnotations) > 0
          THEN [Emit(s1, "2", s1.progressAnnotations) EXCEPT !.progressAnnotations = <<>>]
          ELSE s1
  ELSE s

\* { type: "tool_interrupt", ...ti }
InterruptAnnotation(ti) ==
  [type |-> "tool_interrupt", toolCallId |-> ti.toolCallId, toolName |-> ti.toolName,
   prompt |-> ti.prompt, details |-> ti.details, thread_id |-> ti.thread_id]

ProgressAnnotation(ap) ==
  [type |-> "agent_progress", phase |-> ap.phase, message |-> ap.message,
   step |-> ap.step, total |-> ap.total]

\* An accumulation loop that keeps the last fragment of the arguments instead
\* of appending it.
RECURSIVE AccumulateOverwrites(_, _)
AccumulateOverwrites(map, frags) ==
  IF frags = <<>> THEN map
  ELSE LET tc   == Head(frags)
           idx  == IndexOf(tc)
           map1 == IF \E i \in 1..Len(map) : map[i].idx = idx
                   THEN map
                   ELSE Append(map, [idx |-> idx, id |-> "", name |-> "", args |-> <<>>])
           k    == CHOOSE i \in 1..Len(map1) : map1[i].idx = idx
           acc  == map1[k]
           acc1 == [acc EXCEPT !.id   = IF tc.id # "" THEN tc.id ELSE @,
                               !.name = IF tc.name # "" THEN tc.name ELSE @,
                               !.args = IF tc.arguments # <<>> THEN tc.arguments ELSE @]
       IN AccumulateOverwrites([map1 EXCEPT ![k] = acc1], Tail(frags))

\* The accumulation loop over delta.tool_calls (lines 159-174).
RECURSIVE Accumulate(_, _)
Accumulate(map, frags) ==
  IF frags = <<>> THEN map
  ELSE LET tc   == Head(frags)
           idx  == IndexOf(tc)
           map1 == IF \E i \in 1..Len(map) : map[i].idx = idx
                   THEN map
                   ELSE Append(map, [idx |-> idx, id |-> "", name |-> "", args |-> <<>>])
           k    == CHOOSE i \in 1..Len(map1) : map1[i].idx = idx
           acc  == map1[k]
           acc1 == [acc EXCEPT !.id   = IF tc.id # "" THEN tc.id ELSE @,
                               !.name = IF tc.name # "" THEN tc.name ELSE @,
                               !.args = @ \o tc.arguments]
       IN Accumulate([map1 EXCEPT ![k] = acc1], Tail(frags))

\* The loop that emits one 9: record per accumulator entry (lines 187-195).
RECURSIVE EmitToolCalls(_, _)
EmitToolCalls(s, entries) ==
  IF entries = <<>> THEN s
  ELSE LET tc == Head(entries)
       IN EmitToolCalls(
            Emit(s, "9", [toolCallId |-> tc.id, toolName |-> tc.name,
                          args |-> [json |-> ArgsAreJson(tc.args), text |-> tc.args]]),
            Tail(entries))

\* A finish that closes the step before it emits the tool calls.
FinishToolCallsStepFirst(s) ==
  EmitToolCalls(Emit([s EXCEPT !.hadToolCalls = TRUE],
                     "e", [finishReason |-> "tool-calls", usage |-> ZERO_USAGE,
                           isContinued |-> TRUE]),
                s.toolCallMap)

\* finish_reason "tool_calls" (lines 185-201).
FinishToolCalls(s) ==
  Emit(EmitToolCalls([s EXCEPT !.hadToolCalls = TRUE], s.toolCallMap),
       "e", [finishReason |-> "tool-calls", usage |-> ZERO_USAGE, isContinued |-> TRUE])

\* finish_reason "stop" (lines 204-215).
FinishStop(s) ==
  Emit(Emit(IF s.hadToolCalls /\ ~s.step2Started THEN EnsureStep2Open(s) ELSE s,
            "e", [finishReason |-> "stop", usage |-> ZERO_USAGE, isContinued |-> FALSE]),
       "d", [finishReason |-> "stop", usage |-> ZERO_USAGE])

\* The standard OpenAI part of processLine (lines 146-215).
ProcessChoice(s, choice) ==
  LET delta == choice.delta
      fin   == choice.finish_reason
      s1 == IF delta.reasoning_content # ""
            THEN Emit(s, "g", delta.reasoning_content) ELSE s
      s2 == [s1 EXCEPT !.toolCallMap = Accumulate(@, delta.tool_calls)]
      s3 == IF delta.content # ""
            THEN Emit(IF s2.hadToolCalls /\ ~s2.step2Started
                      THEN EnsureStep2Open(s2) ELSE s2,
                      "0", delta.content)
            ELSE s2
      s4 == IF fin = "tool_calls" THEN FinishToolCalls(s3) ELSE s3
      s5 == IF fin = "stop" THEN FinishStop(s4) ELSE s4
  IN s5

\* The agent_progress branch (lines 104-127).
HandleProgress(s, ap) ==
  LET annotation == ProgressAnnotation(ap)
  IN IF s.step2Started
     THEN Emit(s, "2", <<annotation>>)
     ELSE [s EXCEPT !.progressAnnotations = Append(@, annotation)]

\* A tool_result branch that forwards the identifier and forgets the result.
HandleToolResultNoResult(s, tr) ==
  Emit(EnsureStep2Open(s), "a", [toolCallId |-> tr.toolCallId, result |-> None])

\* A tool_result branch that does not open step 2.
HandleToolResultNoStepOpen(s, tr) ==
  Emit(s, "a", [toolCallId |-> tr.toolCallId, result |-> tr.result])

\* The tool_result branch (lines 130-135).
HandleToolResult(s, tr) ==
  Emit(EnsureStep2Open(s), "a", [toolCallId |-> tr.toolCallId, result |-> tr.result])

\* A tool_interrupt branch that only invokes the callback.
HandleInterruptNoRecord(s, ti) ==
  OnInterrupt(EnsureStep2Open(s), InterruptAnnotation(ti))

\* A tool_interrupt branch that hands the callback the upstream object as it
\* came, without the type tag.
HandleInterruptRawPayload(s, ti) ==
  OnInterrupt(Emit(EnsureStep2Open(s), "2", <<InterruptAnnotation(ti)>>), ti)

\* A tool_interrupt branch that invokes the callback before it emits.
HandleInterruptCallbackFirst(s, ti) ==
  Emit(OnInterrupt(EnsureStep2Open(s), InterruptAnnotation(ti)),
       "2", <<InterruptAnnotation(ti)>>)

\* A tool_interrupt branch that does not open step 2.
HandleInterruptNoStepOpen(s, ti) ==
  OnInterrupt(Emit(s, "2", <<InterruptAnnotation(ti)>>), InterruptAnnotation(ti))

\* The tool_interrupt branch (lines 138-144).
HandleInterrupt(s, ti) ==
  OnInterrupt(Emit(EnsureStep2Open(s), "2", <<InterruptAnnotation(ti)>>),
              InterruptAnnotation(ti))

\* processLine after JSON.parse succeeded (lines 103-215).
ProcessParsed(s, parsed) ==
  IF parsed.agent_progress # None THEN HandleProgress(s, parsed.agent_progress[1])
  ELSE IF parsed.tool_result # None THEN HandleToolResult(s, parsed.tool_result[1])
  ELSE IF parsed.tool_interrupt # None THEN HandleInterrupt(s, parsed.tool_interrupt[1])
  ELSE IF parsed.choices = <<>> THEN s
  ELSE ProcessChoice(s, parsed.choices[1])

\* A processLine head that takes the field name alone for the prefix, with or
\* without the space after the colon.
DecodeLoosePrefix(line) ==
  IF line = <<>> \/ line[1] # DataPrefix[1] THEN None
  ELSE LET raw == Trim(Slice(line, 1))
       IN IF raw = <<DoneSentinel>> THEN None ELSE JsonParse(raw)

\* The head of processLine (lines 92-101): the parsed object of a line, or None
\* for a line without the data prefix, the [DONE] sentinel and a payload that
\* JSON.parse rejects.
Decode(line) ==
  IF ~StartsWith(line, DataPrefix) THEN None
  ELSE LET raw == Trim(Slice(line, Len(DataPrefix)))
       IN IF raw = <<DoneSentinel>> THEN None ELSE JsonParse(raw)

\* processLine (lines 91-216); every call counts as one line.
ProcessLine(s0, line) ==
  LET s == [s0 EXCEPT !.lineNo = @ + 1]
  IN IF Decode(line) = None THEN s ELSE ProcessParsed(s, Decode(line)[1])

\* for (const line of lines) processLine(line.trimEnd())
RECURSIVE ProcessLines(_, _)
ProcessLines(s, lines) ==
  IF lines = <<>> THEN s
  ELSE ProcessLines(ProcessLine(s, TrimEnd(Head(lines))), Tail(lines))

\* A read loop that processes the trailing partial line at once instead of
\* keeping it for the next chunk.
ChunkStepNoCarry(sb, chunk) ==
  [s |-> ProcessLines(sb.s, SplitLines(sb.buffer \o chunk)), buffer |-> <<>>]

\* One iteration of the read loop on a chunk (lines 222-227): sb is the pair
\* of the closure state and the buffer.
ChunkStep(sb, chunk) ==
  LET lines == SplitLines(sb.buffer \o chunk)
  IN [s      |-> ProcessLines(sb.s, SubSeq(lines, 1, Len(lines) - 1)),
      buffer |-> lines[Len(lines)]]

\* After the loop (line 229): the rest of the buffer is processed as a last line.
FlushStep(sb) ==
  IF Trim(sb.buffer) # <<>> THEN ProcessLine(sb.s, TrimEnd(sb.buffer)) ELSE sb.s

\* The closure state when start() reaches the read loop (lines 59-77).
StartState ==
  Emit([toolCallMap |-> <<>>, hadToolCalls |-> FALSE, step2Started |-> FALSE,
        progressAnnotations |-> <<>>, lineNo |-> 0, out |-> <<>>, calls |-> <<>>],
       "f", [messageId |-> step1Id])

\* ---------------------------------------------------------------- upstream
\* The lines the upstream draws from while the transcoder reads: one alphabet
\* per kind of turn.
ToolTurn      == {DataLine(b) : b \in {"call", "fin_tools", "result", "text", "stop"}}
InterruptTurn == {DataLine(b) : b \in {"call_fin", "interrupt", "result", "progress", "stop"}}
MixedTurn     == {DataLine(b) : b \in {"progress+result", "result+interrupt", "call_fin",
                                        "text", "stop"}}
NoisyTurn     == {DataLine("text"), DataLine("stop"), NoSpaceLine, BlankLine, DoneLine}
ProgressTurn  == {DataLine(b) : b \in {"progress", "progress2", "call_fin", "result", "text"}}
Turns == {ToolTurn, InterruptTurn, MixedTurn, NoisyTurn, ProgressTurn}

\* The interrupt path of the header comment (lines 31-33): tool-call deltas, the
\* finish of the round, the interrupt, the end of the turn.
InterruptPath ==
  <<{DataLine("call"), DataLine("call_open")},
    {DataLine("call_close"), DataLine("call2")},
    {DataLine("fin_tools"), DataLine("call_fin")},
    {DataLine("interrupt")},
    {DataLine("stop")}>>

\* The tool path of the header comment (lines 27-29): tool-call deltas, the
\* finish of the round, the tool result, content deltas, the end of the turn.
ToolPath ==
  <<{DataLine("call"), DataLine("call_open")},
    {DataLine("call_close"), DataLine("call2"), DataLine("call_rest"), DataLine("call_rename")},
    {DataLine("fin_tools"), DataLine("call_fin")},
    {DataLine("result")},
    {DataLine("text")},
    {DataLine("text"), DataLine("delta")},
    {DataLine("stop")}>>

Scenarios == {InterruptPath, ToolPath}

\* Lines of a text that is already in the pipe and is read in arbitrary chunks.
PipedLines ==
  {DataLine("call_fin"), DataLine("stop"), CrLine, BrokenLine, DoneLine, KeepAlive}

RECURSIVE Join(_)
Join(lines) ==
  IF lines = <<>> THEN <<>> ELSE Head(lines) \o <<LF>> \o Join(Tail(lines))

\* Texts of at most MaxPiped lines; the last line may lack its line feed.
PipedTexts ==
  LET seqs == UNION {[1..n -> PipedLines] : n \in 1..MaxPiped}
  IN {Join(ls) : ls \in seqs} \cup {SubSeq(Join(ls), 1, Len(Join(ls)) - 1) : ls \in seqs}

\* The route before any request: an empty store (new Map()), no handler, no run.
RouteStart ==
  /\ store = [c \in Chats |-> None]
  /\ reqs = <<>>
  /\ runs = <<>>
  /\ response = None
  /\ fetches = {}
  /\ posted = 0

Init ==
  /\ \/ src = <<>> /\ plan \in {[i \in 1..MaxLines |-> t] : t \in Turns} \cup Scenarios
     \/ src \in PipedTexts /\ plan = <<>>
  /\ received = <<>>
  /\ buffer = <<>>
  /\ toolCallMap = StartState.toolCallMap
  /\ hadToolCalls = StartState.hadToolCalls
  /\ step2Started = StartState.step2Started
  /\ progressAnnotations = StartState.progressAnnotations
  /\ lineNo = StartState.lineNo
  /\ out = StartState.out
  /\ calls = StartState.calls
  /\ closed = FALSE
  /\ saved = FALSE
  /\ messages = <<>>
  /\ RouteStart

\* The closure state and buffer become those of sb.
Becomes(sb) ==
  /\ buffer' = sb.buffer
  /\ toolCallMap' = sb.s.toolCallMap
  /\ hadToolCalls' = sb.s.hadToolCalls
  /\ step2Started' = sb.s.step2Started
  /\ progressAnnotations' = sb.s.progressAnnotations
  /\ lineNo' = sb.s.lineNo
  /\ out' = sb.s.out
  /\ calls' = sb.s.calls

\* reader.read() yields the first n symbols of the text in the pipe.
ReadPiped ==
  /\ ~closed
  /\ src # <<>>
  /\ \E n \in 1..Len(src) :
       /\ Becomes(ChunkStep([s |-> State, buffer |-> buffer], SubSeq(src, 1, n)))
       /\ received' = received \o SubSeq(src, 1, n)
       /\ src' = SubSeq(src, n + 1, Len(src))
  /\ UNCHANGED <<plan, closed, saved, messages>>
  /\ UNCHANGED route

\* The upstream writes its next line and reader.read() yields it as one chunk.
ReadLive ==
  /\ ~closed
  /\ src = <<>>
  /\ plan # <<>>
  /\ \E l \in Head(plan) :
       /\ Becomes(ChunkStep([s |-> State, buffer |-> buffer], l \o <<LF>>))
       /\ received' = received \o l \o <<LF>>
  /\ plan' = Tail(plan)
  /\ UNCHANGED <<src, closed, saved, messages>>
  /\ UNCHANGED route

\* reader.read() yields done: flush and close (lines 221, 229, 233).
End ==
  /\ ~closed
  /\ src = <<>>
  /\ Becomes([s |-> FlushStep([s |-> State, buffer |-> buffer]), buffer |-> buffer])
  /\ closed' = TRUE
  /\ UNCHANGED <<src, plan, received, saved, messages>>
  /\ UNCHANGED route

\* A catch block that still processes the rest of the buffer before closing.
ReadErrorFlushes ==
  /\ ~closed
  /\ Becomes([s |-> FlushStep([s |-> State, buffer |-> buffer]), buffer |-> buffer])
  /\ closed' = TRUE
  /\ UNCHANGED <<src, plan, received, saved, messages>>
  /\ UNCHANGED route

\* reader.read() rejects: catch, then close (lines 230-234).
ReadError ==
  /\ ~closed
  /\ closed' = TRUE
  /\ UNCHANGED <<src, plan, received, run, saved, messages>>
  /\ UNCHANGED route

\* ------------------------------------------------------- persistence mirror
\* parseLine of saveAgentStream (route.ts lines 47-61) on one record of the teed
\* copy; m is [textContent, toolCalls], toolCalls a Map in insertion order.
ParseLine(m, rec) ==
  IF rec.tag = "0" THEN [m EXCEPT !.textContent = Append(@, rec.val)]
  ELSE IF rec.tag = "9"
  THEN LET entry == [toolCallId |-> rec.val.toolCallId, toolName |-> rec.val.toolName,
                     args |-> rec.val.args, result |-> None]
       IN IF \E i \in 1..Len(m.toolCalls) : m.toolCalls[i].toolCallId = entry.toolCallId
          THEN [m EXCEPT !.toolCalls =
                  [i \in 1..Len(@) |->
                     IF @[i].toolCallId = entry.toolCallId THEN entry ELSE @[i]]]
          ELSE [m EXCEPT !.toolCalls = Append(@, entry)]
  ELSE IF rec.tag = "a"
  THEN [m EXCEPT !.toolCalls =
          [i \in 1..Len(@) |->
             IF @[i].toolCallId = rec.val.toolCallId
             THEN [@[i] EXCEPT !.result = rec.val.result] ELSE @[i]]]
  ELSE m

RECURSIVE ParseLines(_, _)
ParseLines(m, recs) ==
  IF recs = <<>> THEN m ELSE ParseLines(ParseLine(m, Head(recs)), Tail(recs))

\* A filter that keeps every tool call.
IsCompletedAlways(tc) == TRUE

\* tc.result !== undefined (lines 77-79).
IsCompleted(tc) == tc.result # None

ToolInvocationPart(tc) ==
  [type |-> "tool-invocation",
   toolInvocation |-> [state |-> "result", step |-> 0, toolCallId |-> tc.toolCallId,
                       toolName |-> tc.toolName, args |-> tc.args, result |-> tc.result]]

RECURSIVE InvocationParts(_)
InvocationParts(tcs) ==
  IF tcs = <<>> THEN <<>>
  ELSE <<ToolInvocationPart(Head(tcs))>> \o InvocationParts(Tail(tcs))

\* The rows saveAgentStream creates from the whole teed copy (lines 63-108).
RowsToSave(recs) ==
  LET m == ParseLines([textContent |-> <<>>, toolCalls |-> <<>>], recs)
      completedToolCalls == SelectSeq(m.toolCalls, IsCompleted)
      parts == <<[type |-> "step-start"]>> \o InvocationParts(completedToolCalls)
               \o (IF m.textContent # <<>>
                   THEN <<[type |-> "text", text |-> m.textContent]>> ELSE <<>>)
  IN IF m.textContent = <<>> /\ completedToolCalls = <<>>
     THEN <<>>
     ELSE <<[role |-> "assistant", content |-> m.textContent, parts |-> parts]>>

\* saveAgentStream reads its copy to the end and writes the assistant message.
SaveAgentStream ==
  /\ closed
  /\ ~saved
  /\ saved' = TRUE
  /\ messages' = messages \o RowsToSave(out)
  /\ UNCHANGED <<src, plan, received, run, closed>>
  /\ UNCHANGED route

\* A failed write whose error reaches the transcoder's stream as an error record.
SaveAgentStreamFailsIntoStream ==
  /\ closed
  /\ ~saved
  /\ RowsToSave(out) # <<>>
  /\ saved' = TRUE
  /\ out' = Append(out, [tag |-> "3", val |-> "Failed to save", line |-> lineNo])
  /\ UNCHANGED <<src, plan, received, buffer, toolCallMap, hadToolCalls, step2Started,
                 progressAnnotations, lineNo, calls, closed, messages>>
  /\ UNCHANGED route

\* prisma.message.create rejects: the catch of saveAgentStream logs the error
\* and the function returns (route.ts lines 99-111).
SaveAgentStreamFails ==
  /\ closed
  /\ ~saved
  /\ RowsToSave(out) # <<>>
  /\ saved' = TRUE
  /\ UNCHANGED <<src, plan, received, run, closed, messages>>
  /\ UNCHANGED route

Next == ReadPiped \/ ReadLive \/ End \/ ReadError \/ SaveAgentStream \/ SaveAgentStreamFails

Spec == Init /\ [][Next]_vars

\* The source's side of reader.read() (line 220): the promise settles, because
\* the source delivers text, or ends or fails, which makes the loop close the
\* stream.
source == <<src, plan, closed>>
SourceSettles ==
  /\ ~closed
  /\ \/ /\ src # <<>>
        /\ \E n \in 1..Len(src) : src' = SubSeq(src, n + 1, Len(src))
        /\ UNCHANGED <<plan, closed>>
     \/ src = <<>> /\ plan # <<>> /\ plan' = Tail(plan) /\ UNCHANGED <<src, closed>>
     \/ closed' = TRUE /\ UNCHANGED <<src, plan>>

\* Every reader.read() settles.
LiveSpec == Spec /\ WF_source(SourceSettles)

\* -------------------------------------------------------------- chat route
\* String.prototype.split(sep) and Array.prototype.join(sep) for a separator of
\* one symbol.
RECURSIVE Split(_, _)
Split(s, sep) ==
  IF \A i \in 1..Len(s) : s[i] # sep
  THEN <<s>>
  ELSE LET k == CHOOSE i \in 1..Len(s) :
                  s[i] = sep /\ \A j \in 1..(i - 1) : s[j] # sep
       IN <<SubSeq(s, 1, k - 1)>> \o Split(SubSeq(s, k + 1, Len(s)), sep)

RECURSIVE JoinWith(_, _)
JoinWith(parts, sep) ==
  IF parts = <<>> THEN <<>>
  ELSE IF Len(parts) = 1 THEN parts[1]
  ELSE parts[1] \o <<sep>> \o JoinWith(Tail(parts), sep)

\* interruptStore (lib/agent-interrupt-store): None is null.
StoreSet(st, chatId, data) == [st EXCEPT ![chatId] = Some(data)]
StoreGet(st, chatId) == st[chatId]
StoreClear(st, chatId) == [st EXCEPT ![chatId] = None]

AgentModel == "test-agent"

\* "RESUME:" and the content the client builds (chat.tsx line 243).
ResumePrefix == <<"RESUME", ":">>
ResumeContent(action, threadId) == ResumePrefix \o <<action, ":">> \o threadId

\* A request body: chatId, model, and the role and content of the last message;
\* <<>> is the empty string and a content that is not a string.
Request(chatId, model, role, content) ==
  [chat |-> chatId, model |-> model, role |-> role, content |-> content]

\* The requests the route receives: new turns of two chats and a resume signal
\* for the agent model, and a resume signal under another model.
Requests ==
  {Request("A", AgentModel, "user", <<"hello">>),
   Request("B", AgentModel, "user", <<"hello">>),
   Request("A", AgentModel, "user", ResumeContent("approved", <<"th", ":", "1">>)),
   Request("B", "gpt-4.1-nano", "user", ResumeContent("denied", <<"t2">>))}

\* What the agent server streams back to a request, as the chunks reader.read()
\* yields: a tool call that is interrupted, and a plain answer.
Scripts ==
  {<<Join(<<DataLine("call_fin"), DataLine("interrupt")>>), Join(<<DataLine("stop")>>)>>,
   <<Join(<<DataLine("text"), DataLine("stop")>>)>>}

\* resumeMatch (route.ts lines 158-160).
IsResume(q) ==
  q.model = AgentModel /\ q.role = "user" /\ StartsWith(q.content, ResumePrefix)

\* A write condition that looks at the role alone.
SavesUserMessageAnyContent(q) == q.role = "user"

\* The condition of the user message write (line 197).
SavesUserMessage(q) == q.role = "user" /\ ~StartsWith(q.content, ResumePrefix)

\* The row of the user message (lines 198-205); content is the text handed to
\* sanitizeUserInput.
UserRow(q) == [chatId |-> q.chat, role |-> "user", content |-> q.content]

\* The row saveAgentStream writes for a run of chat chatId (lines 99-108).
AssistantRow(chatId, row) ==
  [chatId |-> chatId, role |-> row.role, content |-> row.content, parts |-> row.parts,
   model |-> AgentModel]

\* prisma.message.deleteMany of the rows of a chat created at or after the
\* cutoff (lines 141-152); rows are kept in creation order and k is the place
\* of the first row at or after the cutoff.
RECURSIVE DeleteFrom(_, _, _)
DeleteFrom(rows, chatId, k) ==
  IF rows = <<>> THEN <<>>
  ELSE LET last == rows[Len(rows)]
           rest == DeleteFrom(SubSeq(rows, 1, Len(rows) - 1), chatId, k)
       IN IF Len(rows) >= k /\ last.chatId = chatId THEN rest ELSE Append(rest, last)

Remove(seq, i) == SubSeq(seq, 1, i - 1) \o SubSeq(seq, i + 1, Len(seq))

\* "RESUME:<action>:<thread_id>" parsed as lines 164-166 parse it.
ResumeAction(content) ==
  LET parts == Split(content, ":") IN IF Len(parts) >= 2 THEN parts[2] ELSE <<"denied">>
\* A parse that takes the third part alone for the thread identifier.
ResumeThreadIdThirdPart(content) ==
  LET parts == Split(content, ":") IN IF Len(parts) >= 3 THEN parts[3] ELSE <<>>

ResumeThreadId(content) ==
  LET parts == Split(content, ":") IN JoinWith(SubSeq(parts, 3, Len(parts)), ":")

\* Lines 212-279 for request q, the other waiting handlers being others: the
\* agent proxy fetch is sent, or the standard path answers the request.
Proxy(q, others) ==
  IF q.model = AgentModel
  THEN /\ fetches' = fetches \cup {[url |-> "/chat/completions", thread_id |-> q.chat]}
       /\ reqs' = Append(others, [q EXCEPT !.pc = "agentFetch"])
  ELSE /\ reqs' = others
       /\ UNCHANGED fetches

\* Lines 158-212 for request q: the resume path up to its fetch (lines 158-179),
\* or the write of the user message (lines 196-206), which may fail, or
\* straight on to line 212.
Route(q, others) ==
  IF IsResume(q)
  THEN /\ store' = StoreClear(store, q.chat)
       /\ fetches' = fetches \cup {[url |-> "/agent/resume",
                                    thread_id |-> ResumeThreadId(q.content),
                                    action |-> ResumeAction(q.content)]}
       /\ reqs' = Append(others, [q EXCEPT !.pc = "resumeFetch"])
       /\ UNCHANGED messages
  ELSE IF SavesUserMessage(q)
  THEN /\ \/ /\ messages' = Append(messages, UserRow(q))
             /\ reqs' = Append(others, [q EXCEPT !.pc = "saved"])
          \/ /\ reqs' = others
             /\ UNCHANGED messages
       /\ UNCHANGED <<store, fetches>>
  ELSE /\ Proxy(q, others)
       /\ UNCHANGED <<store, messages>>

\* POST: the request is parsed (lines 119-138).  With editCutoffTimestamp the
\* rows from the cutoff on are deleted and the handler waits (lines 141-152);
\* without it the handler goes straight on to line 158.  k = 0: no cutoff.
PostArrive ==
  /\ posted < MaxRequests
  /\ \E q \in Requests, k \in 0..Len(messages) :
       LET h == [chat |-> q.chat, model |-> q.model, role |-> q.role,
                 content |-> q.content, pc |-> "route"]
       IN IF k = 0
          THEN Route(h, reqs)
          ELSE /\ reqs' = Append(reqs, h)
               /\ messages' = DeleteFrom(messages, q.chat, k)
               /\ UNCHANGED <<store, fetches>>
  /\ posted' = posted + 1
  /\ UNCHANGED <<runs, response>>
  /\ UNCHANGED stream

\* POST after deleteMany returned.
PostRoute(i) ==
  /\ reqs[i].pc = "route"
  /\ Route(reqs[i], Remove(reqs, i))
  /\ UNCHANGED <<runs, response, posted>>
  /\ UNCHANGED stream

\* POST after the user message was written.
PostSaved(i) ==
  /\ reqs[i].pc = "saved"
  /\ Proxy(reqs[i], Remove(reqs, i))
  /\ UNCHANGED <<store, messages, runs, response, posted>>
  /\ UNCHANGED stream

\* The agent server answers a fetch: 502 when it failed (lines 181-185 and
\* 228-232), else the stream is converted with onInterrupt set to
\* interruptStore.set(chatId, data), teed and returned (lines 187-193, 234-240).
PostFetched(i) ==
  /\ reqs[i].pc \in {"resumeFetch", "agentFetch"}
  /\ \/ UNCHANGED runs
     \/ \E sc \in Scripts :
          runs' = Append(runs, [chat |-> reqs[i].chat, script |-> sc,
                                sb |-> [s |-> StartState, buffer |-> <<>>],
                                closed |-> FALSE])
  /\ reqs' = Remove(reqs, i)
  /\ UNCHANGED <<store, messages, response, fetches, posted>>
  /\ UNCHANGED stream

\* A callback that writes the payload under every chat: a store that is one
\* slot, not one slot per chatId.
RECURSIVE StoreAfterCallsOneSlot(_, _, _)
StoreAfterCallsOneSlot(st, chatId, cs) ==
  IF cs = <<>> THEN st
  ELSE StoreAfterCallsOneSlot([c \in DOMAIN st |-> Some(Head(cs).data)], chatId, Tail(cs))

\* onInterrupt of a run of chat chatId, for the calls the run made.
RECURSIVE StoreAfterCalls(_, _, _)
StoreAfterCalls(st, chatId, cs) ==
  IF cs = <<>> THEN st
  ELSE StoreAfterCalls(StoreSet(st, chatId, Head(cs).data), chatId, Tail(cs))

\* Run j reads the next chunk of its upstream.
RunRead(j) ==
  LET r   == runs[j]
      sb2 == ChunkStep(r.sb, Head(r.script))
  IN /\ ~r.closed
     /\ r.script # <<>>
     /\ runs' = [runs EXCEPT ![j].sb = sb2, ![j].script = Tail(r.script)]
     /\ store' = StoreAfterCalls(store, r.chat,
                                 SubSeq(sb2.s.calls, Len(r.sb.s.calls) + 1, Len(sb2.s.calls)))
     /\ UNCHANGED <<reqs, messages, response, fetches, posted>>
     /\ UNCHANGED stream

\* The upstream of run j ends: flush and close.
RunEnd(j) ==
  LET r  == runs[j]
      s2 == FlushStep(r.sb)
  IN /\ ~r.closed
     /\ r.script = <<>>
     /\ runs' = [runs EXCEPT ![j].sb = [s |-> s2, buffer |-> r.sb.buffer],
                             ![j].closed = TRUE]
     /\ store' = StoreAfterCalls(store, r.chat,
                                 SubSeq(s2.calls, Len(r.sb.s.calls) + 1, Len(s2.calls)))
     /\ UNCHANGED <<reqs, messages, response, fetches, posted>>
     /\ UNCHANGED stream

\* The mirror of run j read its copy to the end: the row is written, or the
\* write fails and is logged.
RunSave(j) ==
  LET r    == runs[j]
      rows == RowsToSave(r.sb.s.out)
  IN /\ r.closed
     /\ \/ messages' = messages \o [n \in 1..Len(rows) |-> AssistantRow(r.chat, rows[n])]
        \/ rows # <<>> /\ UNCHANGED messages
     /\ runs' = Remove(runs, j)
     /\ UNCHANGED <<store, reqs, response, fetches, posted>>
     /\ UNCHANGED stream

\* A GET that clears the entry it returned.
GetForThenClears(chatId) ==
  /\ response' = Some(IF chatId = "" THEN None ELSE StoreGet(store, chatId))
  /\ store' = IF chatId = "" THEN store ELSE StoreClear(store, chatId)
  /\ UNCHANGED <<reqs, runs, messages, fetches, posted>>
  /\ UNCHANGED stream

\* GET /api/chat?interrupt=<chatId> (lines 296-301); "" is a missing parameter.
GetFor(chatId) ==
  /\ response' = Some(IF chatId = "" THEN None ELSE StoreGet(store, chatId))
  /\ UNCHANGED <<store, reqs, runs, messages, fetches, posted>>
  /\ UNCHANGED stream

Get == \E c \in Chats \cup {""} : GetFor(c)

RouteInit ==
  /\ src = <<>>
  /\ plan = <<>>
  /\ received = <<>>
  /\ buffer = <<>>
  /\ toolCallMap = StartState.toolCallMap
  /\ hadToolCalls = StartState.hadToolCalls
  /\ step2Started = StartState.step2Started
  /\ progressAnnotations = StartState.progressAnnotations
  /\ lineNo = StartState.lineNo
  /\ out = StartState.out
  /\ calls = StartState.calls
  /\ closed = FALSE
  /\ saved = FALSE
  /\ messages = <<>>
  /\ RouteStart

RouteNext ==
  \/ PostArrive
  \/ \E i \in 1..Len(reqs) : PostRoute(i)
  \/ \E i \in 1..Len(reqs) : PostSaved(i)
  \/ \E i \in 1..Len(reqs) : PostFetched(i)
  \/ \E j \in 1..Len(runs) : RunRead(j)
  \/ \E j \in 1..Len(runs) : RunEnd(j)
  \/ \E j \in 1..Len(runs) : RunSave(j)
  \/ Get

RouteSpec == RouteInit /\ [][RouteNext]_vars

\* The resume signals a client builds (chat.tsx lines 230-243): the action of
\* the button and the thread identifier of the interrupt, any string, here any
\* text of at most MaxThread symbols, colons included.
ResumeActions == {"approved", "denied", "skipped"}
ThreadSymbols == {"th", ":"}
ThreadIds == UNION {[1..n -> ThreadSymbols] : n \in 0..MaxThread}

\* The route when a resume request for chat A is about to be routed, with the
\* interrupt it answers pending and no other request under way.
ResumeInit ==
  /\ src = <<>>
  /\ plan = <<>>
  /\ received = <<>>
  /\ buffer = <<>>
  /\ toolCallMap = StartState.toolCallMap
  /\ hadToolCalls = StartState.hadToolCalls
  /\ step2Started = StartState.step2Started
  /\ progressAnnotations = StartState.progressAnnotations
  /\ lineNo = StartState.lineNo
  /\ out = StartState.out
  /\ calls = StartState.calls
  /\ closed = FALSE
  /\ saved = FALSE
  /\ messages = <<>>
  /\ store = StoreSet([c \in Chats |-> None], "A", InterruptAnnotation(InterruptC1))
  /\ \E a \in ResumeActions, t \in ThreadIds :
       reqs = <<[chat |-> "A", model |-> AgentModel, role |-> "user",
                 content |-> ResumeContent(a, t), pc |-> "route"]>>
  /\ runs = <<>>
  /\ response = None
  /\ fetches = {}
  /\ posted = 1

ResumeNext ==
  \/ \E i \in 1..Len(reqs) : PostRoute(i)
  \/ \E i \in 1..Len(reqs) : PostFetched(i)
  \/ \E j \in 1..Len(runs) : RunRead(j)
  \/ \E j \in 1..Len(runs) : RunEnd(j)
  \/ \E j \in 1..Len(runs) : RunSave(j)
  \/ Get

ResumeSpec == ResumeInit /\ [][ResumeNext]_vars

\* ------------------------------------------------------------------ claims
\* The lines processLine was called with so far, numbered as lineNo numbers
\* them, and what each decodes to: Events[k] is the object of line k of the
\* text read from the upstream, or None.  The formulas below evaluate Events
\* once and hand it on as ev.
Processed == 1..lineNo
Events ==
  LET lines == SplitLines(received)
  IN [k \in Processed |-> Decode(TrimEnd(lines[k]))]

\* The same text delivered one whole line per chunk.
LineChunks(text) ==
  LET segs == SplitLines(text)
      n    == IF segs[Len(segs)] = <<>> THEN Len(segs) - 1 ELSE Len(segs)
  IN [i \in 1..n |-> IF i < Len(segs) THEN segs[i] \o <<LF>> ELSE segs[i]]

RECURSIVE RunChunks(_, _)
RunChunks(sb, chunks) ==
  IF chunks = <<>> THEN sb ELSE RunChunks(ChunkStep(sb, Head(chunks)), Tail(chunks))

WholeLineOutput(text) ==
  LET sb == RunChunks([s |-> StartState, buffer |-> <<>>], LineChunks(text))
  IN FlushStep(sb).out

\* C1: when the source ends, the records emitted for the text as it was chunked
\* are the records emitted for the same text delivered one whole line per chunk.
C1_ChunkingInvariant == [][End => out' = WholeLineOutput(received)]_vars

\* C1 witness: a chunk ended in the middle of a data line (its head is kept in
\* the buffer, its rest is still in the pipe) after earlier lines were emitted.
C1_Witness ==
  /\ ~closed
  /\ StartsWith(buffer, DataPrefix)
  /\ src # <<>> /\ src[1] # LF
  /\ Len(out) > 1

\* The choice that line k was processed as: None for a line that is not decoded,
\* carries an extension key or has no choices.
ChoiceOf(ev, k) ==
  IF ev[k] = None THEN None
  ELSE LET o == ev[k][1]
       IN IF o.agent_progress # None \/ o.tool_result # None \/ o.tool_interrupt # None
             \/ o.choices = <<>>
          THEN None ELSE Some(o.choices[1])

FinishReason(ev, k) ==
  IF ChoiceOf(ev, k) = None THEN "null" ELSE ChoiceOf(ev, k)[1].finish_reason
Fragments(ev, k) ==
  IF ChoiceOf(ev, k) = None THEN <<>> ELSE ChoiceOf(ev, k)[1].delta.tool_calls

Records == 1..Len(out)
RecordsOf(tag, k) == {i \in Records : out[i].tag = tag /\ out[i].line = k}

ContinuedFinish(line) ==
  [tag |-> "e", line |-> line,
   val |-> [finishReason |-> "tool-calls", usage |-> ZERO_USAGE, isContinued |-> TRUE]]

\* C2: after every step-finish record with isContinued true, a step-open record
\* comes before the first following text, annotation or tool-result record.
C2_StepOpenedAfterContinue ==
  \A i \in Records, j \in Records :
    (i < j /\ out[i].tag = "e" /\ out[i].val.isContinued /\ out[j].tag \in {"0", "2", "a"})
      => \E k \in (i + 1)..(j - 1) : out[k].tag = "f"

\* C3: a step-open record is never emitted while the step opened before it has
\* no step-finish record yet, and the step identifiers of a run are pairwise
\* distinct.
C3_OneStepOpen ==
  \A i \in Records, j \in Records :
    (i < j /\ out[i].tag = "f" /\ out[j].tag = "f")
      => /\ \E k \in (i + 1)..(j - 1) : out[k].tag = "e"
         /\ out[i].val.messageId # out[j].val.messageId

\* The round that ends on finish line k starts after the finish line before it.
RoundLines(ev, k) ==
  {j \in 1..k : \A m \in j..(k - 1) : FinishReason(ev, m) # "tool_calls"}
RoundIndices(ev, k) ==
  UNION {{Fragments(ev, j)[n].index : n \in 1..Len(Fragments(ev, j))} :
           j \in RoundLines(ev, k)}

\* C4: a finish_reason "tool_calls" line emits one 9: record for each tool call
\* of its own round and none for the tool calls of earlier rounds.
C4_ToolCallEmittedOnce ==
  LET ev == Events IN
  \A k \in Processed :
    FinishReason(ev, k) = "tool_calls"
      => Cardinality(RecordsOf("9", k)) = Cardinality(RoundIndices(ev, k))

IsSuffix(t, u) == Len(t) <= Len(u) /\ SubSeq(u, Len(u) - Len(t) + 1, Len(u)) = t

\* C5: a 9: record comes only from a line whose finish_reason is "tool_calls",
\* is followed at once by the other 9: records of that line and then by the
\* step-finish record e:{tool-calls, isContinued: true}, and a fragment carried
\* on the finishing line is part of the 9: record of its tool call.
C5_ToolCallsOnFinish ==
  LET ev == Events IN
  /\ \A i \in Records :
       out[i].tag = "9"
         => /\ out[i].line \in Processed
            /\ FinishReason(ev, out[i].line) = "tool_calls"
            /\ i < Len(out)
            /\ out[i + 1].line = out[i].line
            /\ out[i + 1].tag = "9" \/ out[i + 1] = ContinuedFinish(out[i].line)
  /\ \A k \in Processed :
       FinishReason(ev, k) = "tool_calls"
         => \A n \in 1..Len(Fragments(ev, k)) :
              \E i \in RecordsOf("9", k) :
                /\ Fragments(ev, k)[n].id # ""
                     => out[i].val.toolCallId = Fragments(ev, k)[n].id
                /\ IsSuffix(Fragments(ev, k)[n].arguments, out[i].val.args.text)

\* C5 witness: fragments arrived on earlier lines and on the finishing line, and
\* the round's 9: record was emitted.
C5_Witness ==
  LET ev == Events IN
  \E k \in Processed :
    /\ FinishReason(ev, k) = "tool_calls" /\ Fragments(ev, k) # <<>>
    /\ \E j \in 1..(k - 1) : Fragments(ev, j) # <<>>
    /\ RecordsOf("9", k) # {}

\* The extension event line k was processed as, after the dispatch order of
\* processLine: a line that carries agent_progress is a progress event, a line
\* that carries tool_result and tool_interrupt is a tool_result event.
IsToolResultEvent(ev, k) ==
  /\ ev[k] # None
  /\ ev[k][1].agent_progress = None
  /\ ev[k][1].tool_result # None
IsInterruptEvent(ev, k) ==
  /\ ev[k] # None
  /\ ev[k][1].agent_progress = None
  /\ ev[k][1].tool_result = None
  /\ ev[k][1].tool_interrupt # None

IsResultFor(i, id) == out[i].tag = "a" /\ out[i].val.toolCallId = id
IsInterruptRecord(i) ==
  out[i].tag = "2" /\ \E n \in 1..Len(out[i].val) : out[i].val[n].type = "tool_interrupt"

PersistedResultIds ==
  {messages[r].parts[p].toolInvocation.toolCallId :
     <<r, p>> \in {<<r, p>> \in (1..Len(messages)) \X (1..(2 + Len(out))) :
                     /\ p <= Len(messages[r].parts)
                     /\ messages[r].parts[p].type = "tool-invocation"
                     /\ messages[r].parts[p].toolInvocation.state = "result"}}

UnansweredCall(i) ==
  out[i].tag = "9" /\ ~\E j \in (i + 1)..Len(out) : IsResultFor(j, out[i].val.toolCallId)

\* C7: a tool call whose 9: record is not followed by an a: record with the
\* same toolCallId is not persisted as a tool-invocation with state "result".
C7_UnansweredNotPersisted ==
  \A i \in Records : UnansweredCall(i) => out[i].val.toolCallId \notin PersistedResultIds

\* C7 witness: the mirror wrote a message for an output that holds a 9: record
\* without a following a: record.
C7_Witness ==
  /\ saved /\ messages # <<>>
  /\ \E i \in Records : UnansweredCall(i)

HasDone == \E i \in Records : out[i].tag = "d"

Calls == 1..Len(calls)
CallsOf(k) == {c \in Calls : calls[c].line = k}

C10_CallbackBeforeRecord ==
  \A c \in Calls :
    \A i \in RecordsOf("2", calls[c].line) :
      out[i].val = <<calls[c].data>> => calls[c].seen < i

\* C10 as amended: the callback runs right after the 2: record of its event is
\* enqueued: that record is the last one enqueued when the callback runs, so
\* no later record (the e: and d: records of the turn) precedes the callback.
C10_CallbackRightAfterRecord ==
  \A c \in Calls :
    /\ calls[c].seen \in Records
    /\ out[calls[c].seen] =
         [tag |-> "2", val |-> <<calls[c].data>>, line |-> calls[c].line]

\* C10 witness: the callback was invoked and the run went on to emit d:.
C10_Witness ==
  \E c \in Calls : \E i \in Records : i > calls[c].seen /\ out[i].tag = "d"

\* C11: the d: record is emitted at most once and no record follows it.
C11_DoneOnceAndLast ==
  \A i \in Records : out[i].tag = "d" => i = Len(out)

IsProgressEvent(ev, k) == ev[k] # None /\ ev[k][1].agent_progress # None
IsProgressRecord(i) ==
  out[i].tag = "2" /\ \A n \in 1..Len(out[i].val) : out[i].val[n].type = "agent_progress"

\* A flush record: a progress annotation record emitted while a line that is
\* not itself a progress event was processed.
IsFlushRecord(ev, i) == IsProgressRecord(i) /\ ~IsProgressEvent(ev, out[i].line)

\* The upstream lines a record was produced from: the buffered progress events
\* for a flush record, the line being processed for any other record.
Origins(ev, i) ==
  IF IsFlushRecord(ev, i)
  THEN {j \in 1..(out[i].line - 1) : IsProgressEvent(ev, j)}
  ELSE {out[i].line}

\* C12: when line L1 arrives before line L2, every record produced from L1
\* precedes every record produced from L2 (step-open records, which only
\* segment the output, are left aside).
C12_ArrivalOrderKept ==
  LET ev == Events IN
  \A p \in Records, q \in Records :
    (q < p /\ out[p].tag # "f" /\ out[q].tag # "f")
      => \A m \in Origins(ev, q), j \in Origins(ev, p) : m <= j

\* C13: every 2: record is a list with exactly one element.
C13_AnnotationSingleton ==
  \A i \in Records : out[i].tag = "2" => Len(out[i].val) = 1

\* The annotations of the progress events among the lines before line k, in
\* arrival order.
RECURSIVE ProgressBefore(_, _)
ProgressBefore(ev, k) ==
  IF k <= 1 THEN <<>>
  ELSE ProgressBefore(ev, k - 1)
       \o (IF IsProgressEvent(ev, k - 1)
           THEN <<ProgressAnnotation(ev[k - 1][1].agent_progress[1])>> ELSE <<>>)

IsStep2Open(i) == out[i].tag = "f" /\ out[i].val.messageId = step2Id

\* C14: when the second step opens, the progress annotations buffered until
\* then are emitted right after its f: record, in arrival order, in one record;
\* nothing is flushed anywhere else, every other progress record is the
\* annotation of the progress line being processed, and the buffer is empty
\* once the step is open.
C14_BufferFlushedAtStepOpen ==
  LET ev == Events IN
  /\ \A i \in Records :
       IsStep2Open(i)
         => LET buffered == ProgressBefore(ev, out[i].line)
            IN IF buffered # <<>>
               THEN /\ i < Len(out)
                    /\ out[i + 1] = [tag |-> "2", val |-> buffered, line |-> out[i].line]
               ELSE i < Len(out) => ~IsFlushRecord(ev, i + 1)
  /\ \A i \in Records :
       IsProgressRecord(i)
         => \/ i > 1 /\ IsStep2Open(i - 1)
            \/ /\ IsProgressEvent(ev, out[i].line)
               /\ out[i].val = <<ProgressAnnotation(ev[out[i].line][1].agent_progress[1])>>
               /\ \E f \in 1..(i - 1) : IsStep2Open(f)
  /\ step2Started => progressAnnotations = <<>>

\* C14 witness: two different annotations were buffered and flushed in their
\* arrival order, and a later record of the step follows the flush.
C14_Witness ==
  \E i \in Records :
    /\ IsStep2Open(i) /\ i + 2 <= Len(out)
    /\ out[i + 1].tag = "2" /\ Len(out[i + 1].val) = 2
    /\ out[i + 1].val[1] # out[i + 1].val[2]
    /\ out[i + 2].tag \in {"a", "0", "2"}

\* The lines C15 is about: no "data: " prefix, the [DONE] sentinel, or a
\* payload that is not valid JSON.
IsNoOpLine(line) ==
  \/ ~StartsWith(line, DataPrefix)
  \/ Trim(Slice(line, Len(DataPrefix))) = <<DoneSentinel>>
  \/ JsonParse(Trim(Slice(line, Len(DataPrefix)))) = None

NoOpLines == {l \in {KeepAlive, BlankLine, DoneLine, BrokenLine, NoSpaceLine} : IsNoOpLine(l)}

\* The text without its no-op lines.
WithoutNoOpLines(text) ==
  Join(SelectSeq(SplitLines(text), LAMBDA seg : ~IsNoOpLine(TrimEnd(seg))))

\* Records without the history field.
Strip(recs) == [i \in 1..Len(recs) |-> [tag |-> recs[i].tag, val |-> recs[i].val]]

\* The line processLine was called with as its k-th line.
ProcessedLine(k) == TrimEnd(SplitLines(received)[k])

\* C15: a no-op line emits no record and invokes no callback, processLine on
\* such a line leaves the closure state (tool-call accumulator, step flags,
\* annotation buffer, output) as it was, and when the source ends the output
\* is the output of the same text with the no-op lines removed.
C15_NoOpLines ==
  /\ [](/\ \A k \in Processed :
             IsNoOpLine(ProcessedLine(k))
               => /\ \A i \in Records : out[i].line # k
                  /\ \A n \in Calls : calls[n].line # k
         /\ \A l \in NoOpLines :
              ProcessLine(State, l) = [State EXCEPT !.lineNo = @ + 1])
  /\ [][End => Strip(out') = Strip(WholeLineOutput(WithoutNoOpLines(received)))]_vars

\* C15 witness: a closed run in which a no-op line that is not blank was
\* processed after a line that emitted and before another line that emitted.
C15_Witness ==
  /\ closed
  /\ \E k \in Processed :
       /\ IsNoOpLine(ProcessedLine(k)) /\ ProcessedLine(k) # <<>>
       /\ \E i \in Records, j \in Records :
            out[i].line > 0 /\ out[i].line < k /\ out[j].line > k

\* C16: the output stream is eventually closed, once closed it stays closed
\* and nothing is emitted any more, and a read error closes it with the
\* records emitted so far: no error record, no record for the buffered
\* partial line, no callback.
C16_ClosedOnceAlsoOnError ==
  /\ <>closed
  /\ [][closed => (closed' /\ out' = out /\ calls' = calls)]_vars
  /\ [][ReadError => (closed' /\ out' = out /\ calls' = calls)]_vars

\* C16 witness: the stream was closed by a read error (text is left in the
\* pipe) while the buffer held a partial line that decodes to an event, after
\* records were emitted.
C16_Witness ==
  /\ closed /\ src # <<>>
  /\ Decode(TrimEnd(buffer)) # None
  /\ Len(out) > 1

\* The copy of the output that tee() hands to the client.
ClientStream == out

\* C17: the step in which saveAgentStream returns, with the message written
\* or with the write failed, leaves the client's copy as it was and the
\* stream closed without an error; a failed write leaves no row.
C17_MirrorFailureIsolated ==
  /\ [][(saved' /\ ~saved) => (ClientStream' = ClientStream /\ closed' = closed)]_vars
  /\ [][SaveAgentStreamFails => (saved' /\ messages' = messages)]_vars

\* C17 witness: saveAgentStream returned after a failed write of a message it
\* had to write.
C17_Witness ==
  saved /\ messages = <<>> /\ RowsToSave(out) # <<>>

\* Line k is a choice line that carries nothing but tool-call fragments and
\* the given finish_reason.
IsCallLine(ev, k, fin) ==
  /\ ChoiceOf(ev, k) # None
  /\ ChoiceOf(ev, k)[1].delta.content = ""
  /\ ChoiceOf(ev, k)[1].delta.reasoning_content = ""
  /\ ChoiceOf(ev, k)[1].finish_reason = fin
  /\ fin = "null" => Fragments(ev, k) # <<>>

\* The input of the interrupt path: tool-call deltas, finish_reason
\* "tool_calls", a tool_interrupt event, finish_reason "stop", nothing else.
IsInterruptPath(ev) ==
  /\ lineNo >= 4
  /\ \A k \in 1..(lineNo - 3) : IsCallLine(ev, k, "null")
  /\ IsCallLine(ev, lineNo - 2, "tool_calls")
  /\ IsInterruptEvent(ev, lineNo - 1)
  /\ IsCallLine(ev, lineNo, "stop")

\* The tool calls of the input: the indices of its fragments.
CallIndices(ev) ==
  UNION {{IndexOf(Fragments(ev, k)[n]) : n \in 1..Len(Fragments(ev, k))} : k \in Processed}

\* C20: on the input of the interrupt path the output is f:, one 9: per tool
\* call, e:{tool-calls, isContinued: true}, f: with the other identifier, the
\* 2: record of the interrupt, e:{stop}, d:, and the mirror has no completed
\* tool invocation and no message to write.
C20_InterruptPath ==
  LET ev == Events
      n  == Cardinality(CallIndices(ev))
  IN IsInterruptPath(ev)
       => /\ Len(out) = n + 6
          /\ Strip(out)[1] = [tag |-> "f", val |-> [messageId |-> step1Id]]
          /\ \A i \in 2..(n + 1) : out[i].tag = "9"
          /\ Strip(out)[n + 2] =
               [tag |-> "e", val |-> [finishReason |-> "tool-calls", usage |-> ZERO_USAGE,
                                      isContinued |-> TRUE]]
          /\ Strip(out)[n + 3] = [tag |-> "f", val |-> [messageId |-> step2Id]]
          /\ step2Id # step1Id
          /\ Strip(out)[n + 4] =
               [tag |-> "2",
                val |-> <<InterruptAnnotation(ev[lineNo - 1][1].tool_interrupt[1])>>]
          /\ Strip(out)[n + 5] =
               [tag |-> "e", val |-> [finishReason |-> "stop", usage |-> ZERO_USAGE,
                                      isContinued |-> FALSE]]
          /\ Strip(out)[n + 6] = [tag |-> "d", val |-> [finishReason |-> "stop",
                                                        usage |-> ZERO_USAGE]]
          /\ RowsToSave(out) = <<>>
          /\ PersistedResultIds = {}
          /\ messages = <<>>

\* C20 witness: the interrupt path with two tool calls ran to its end and the
\* mirror returned.
C20_Witness ==
  LET ev == Events
  IN IsInterruptPath(ev) /\ Cardinality(CallIndices(ev)) = 2 /\ closed /\ saved

\* The handlers of chat c that wait for the answer to their resume fetch.
ResumeWaiting(rs, c) ==
  Cardinality({i \in 1..Len(rs) : rs[i].chat = c /\ rs[i].pc = "resumeFetch"})

\* In this step a run of chat c invoked its callback, and the entry of c is
\* the payload of its last invocation.
SetIn(c) ==
  \E j \in 1..Len(runs) :
    /\ j <= Len(runs')
    /\ runs[j].chat = c /\ runs'[j].chat = c
    /\ Len(runs'[j].sb.s.calls) > Len(runs[j].sb.s.calls)
    /\ store'[c] = Some(runs'[j].sb.s.calls[Len(runs'[j].sb.s.calls)].data)

\* In this step a resume request of chat c reached its fetch, and c has no entry.
ClearedIn(c) ==
  ResumeWaiting(reqs', c) > ResumeWaiting(reqs, c) /\ store'[c] = None

UserRows(rows) == SelectSeq(rows, LAMBDA r : r.role = "user")

IsContentLine(ev, k) ==
  /\ ChoiceOf(ev, k) # None
  /\ ChoiceOf(ev, k)[1].delta.reasoning_content = ""
  /\ ChoiceOf(ev, k)[1].delta.tool_calls = <<>>
  /\ ChoiceOf(ev, k)[1].finish_reason = "null"

\* The input of a single tool round whose finish_reason "tool_calls" is on
\* line t: tool-call deltas, the finish, a tool_result event, content deltas,
\* finish_reason "stop", nothing else.
IsToolRound(ev, t) ==
  /\ t + 3 <= lineNo
  /\ \A k \in 1..(t - 1) : IsCallLine(ev, k, "null")
  /\ IsCallLine(ev, t, "tool_calls")
  /\ CallIndices(ev) # {}
  /\ IsToolResultEvent(ev, t + 1) /\ ev[t + 1][1].tool_interrupt = None
  /\ \A k \in (t + 2)..(lineNo - 1) : IsContentLine(ev, k)
  /\ IsCallLine(ev, lineNo, "stop")

\* The non-empty content deltas of lines a..b, in order.
RECURSIVE Contents(_, _, _)
Contents(ev, a, b) ==
  IF a > b THEN <<>>
  ELSE (IF ChoiceOf(ev, a)[1].delta.content # ""
        THEN <<ChoiceOf(ev, a)[1].delta.content>> ELSE <<>>) \o Contents(ev, a + 1, b)

\* C21: on the input of a single tool round the output is f:, one 9: per tool
\* call, e:{tool-calls, isContinued: true}, f: with the other identifier, the
\* a: record of the result, one 0: per non-empty content delta, e:{stop,
\* isContinued: false}, d:, in that order and nothing else.
C21_SingleToolRound ==
  LET ev == Events
      n  == Cardinality(CallIndices(ev))
  IN \A t \in Processed :
       IsToolRound(ev, t)
         => LET texts == Contents(ev, t + 2, lineNo - 1)
                m     == Len(texts)
            IN /\ Len(out) = n + m + 6
               /\ Strip(out)[1] = [tag |-> "f", val |-> [messageId |-> step1Id]]
               /\ \A i \in 2..(n + 1) : out[i].tag = "9"
               /\ Strip(out)[n + 2] =
                    [tag |-> "e", val |-> [finishReason |-> "tool-calls", usage |-> ZERO_USAGE,
                                           isContinued |-> TRUE]]
               /\ Strip(out)[n + 3] = [tag |-> "f", val |-> [messageId |-> step2Id]]
               /\ step2Id # step1Id
               /\ Strip(out)[n + 4] =
                    [tag |-> "a",
                     val |-> [toolCallId |-> ev[t + 1][1].tool_result[1].toolCallId,
                              result |-> ev[t + 1][1].tool_result[1].result]]
               /\ \A i \in 1..m : Strip(out)[n + 4 + i] = [tag |-> "0", val |-> texts[i]]
               /\ Strip(out)[n + m + 5] =
                    [tag |-> "e", val |-> [finishReason |-> "stop", usage |-> ZERO_USAGE,
                                           isContinued |-> FALSE]]
               /\ Strip(out)[n + m + 6] = [tag |-> "d", val |-> [finishReason |-> "stop",
                                                                 usage |-> ZERO_USAGE]]

\* C21 witness: a single tool round with two tool calls, an empty and a
\* non-empty content delta ran to its end.
C21_Witness ==
  LET ev == Events
  IN /\ closed
     /\ Cardinality(CallIndices(ev)) = 2
     /\ \E t \in Processed :
          /\ IsToolRound(ev, t)
          /\ Len(Contents(ev, t + 2, lineNo - 1)) = 1
          /\ lineNo - 1 > t + 2

\* The tool-call fragments of lines 1..k, in arrival order.
RECURSIVE FragmentsUpTo(_, _)
FragmentsUpTo(ev, k) ==
  IF k = 0 THEN <<>> ELSE FragmentsUpTo(ev, k - 1) \o Fragments(ev, k)

RECURSIVE ConcatArguments(_)
ConcatArguments(frags) ==
  IF frags = <<>> THEN <<>> ELSE Head(frags).arguments \o ConcatArguments(Tail(frags))

\* The last non-empty id and name of the fragments, "" when there is none.
RECURSIVE LastId(_)
LastId(frags) ==
  IF frags = <<>> THEN ""
  ELSE IF frags[Len(frags)].id # "" THEN frags[Len(frags)].id
  ELSE LastId(SubSeq(frags, 1, Len(frags) - 1))
RECURSIVE LastName(_)
LastName(frags) ==
  IF frags = <<>> THEN ""
  ELSE IF frags[Len(frags)].name # "" THEN frags[Len(frags)].name
  ELSE LastName(SubSeq(frags, 1, Len(frags) - 1))

\* The 9: record the claim expects for index idx from the fragments frs
\* received so far; a fragment without an index counts for index 0.
ExpectedToolCall(frs, idx) ==
  LET frags == SelectSeq(frs, LAMBDA tc : (IF tc.index = None THEN 0 ELSE tc.index[1]) = idx)
      text  == ConcatArguments(frags)
  IN [toolCallId |-> LastId(frags), toolName |-> LastName(frags),
      args |-> [json |-> text = <<"{", "}">>, text |-> text]]

IndicesIn(frs) ==
  {IF frs[n].index = None THEN 0 ELSE frs[n].index[1] : n \in 1..Len(frs)}

\* C22: the 9: records of a line with finish_reason "tool_calls" are one per
\* index received so far, each with the last non-empty id and name received
\* for the index and the concatenation, in arrival order, of the argument
\* fragments received for it: parsed when it is valid JSON, else the raw
\* string; a fragment without an index counts for index 0.
C22_ArgsFromAllFragments ==
  LET ev == Events
  IN \A k \in Processed :
       FinishReason(ev, k) = "tool_calls"
         => LET frs == FragmentsUpTo(ev, k)
            IN /\ Cardinality(RecordsOf("9", k)) = Cardinality(IndicesIn(frs))
               /\ {out[i].val : i \in RecordsOf("9", k)}
                    = {ExpectedToolCall(frs, idx) : idx \in IndicesIn(frs)}

\* C22 witness: a 9: record whose arguments parse as JSON and came in several
\* fragments, one of them on an earlier line and without an index.
C22_Witness ==
  LET ev == Events
  IN \E i \in Records, k \in Processed :
       /\ out[i].tag = "9" /\ out[i].val.args.json /\ k < out[i].line
       /\ Fragments(ev, k) # <<>> /\ Fragments(ev, k)[1].index = None
       /\ Fragments(ev, k)[1].arguments # <<>>
       /\ Fragments(ev, k)[1].arguments # out[i].val.args.text

OpenRuns(c) == {j \in 1..Len(runs) : runs[j].chat = c /\ ~runs[j].closed}

\* C23: no two transcoding runs of the same chat are open at the same time,
\* and no resume request of a chat has cleared the store and waits for its
\* fetch while a run of that chat is still open.
C23_SingleWriterPerChat ==
  \A c \in Chats :
    /\ Cardinality(OpenRuns(c)) <= 1
    /\ ResumeWaiting(reqs, c) > 0 => OpenRuns(c) = {}

\* C24: a line that carries tool_result yields an a: record and a line that
\* carries tool_interrupt yields the 2: record of the interrupt, whatever
\* other extension field the line carries.
C24_EveryFieldOfALine ==
  LET ev == Events IN
  \A k \in Processed :
    ev[k] # None
      => /\ ev[k][1].tool_result # None => RecordsOf("a", k) # {}
         /\ ev[k][1].tool_interrupt # None
              => \E i \in RecordsOf("2", k) : IsInterruptRecord(i)

\* The number of progress annotations in the records recs.
RECURSIVE ProgressEmitted(_)
ProgressEmitted(recs) ==
  IF recs = <<>> THEN 0
  ELSE ProgressEmitted(Tail(recs))
       + (IF Head(recs).tag = "2"
          THEN Len(SelectSeq(Head(recs).val, LAMBDA a : a.type = "agent_progress"))
          ELSE 0)

\* C25: when the output stream is closed after the whole upstream was read,
\* every agent_progress event read from the upstream has been emitted in a 2:
\* record.
C25_EveryProgressEmitted ==
  LET ev == Events
  IN (closed /\ src = <<>> /\ plan = <<>> /\ buffer = <<>>)
       => ProgressEmitted(out) = Len(ProgressBefore(ev, lineNo + 1))

\* Run j closes its output stream in this step.
Closes(j) ==
  /\ j <= Len(runs') /\ Len(runs') = Len(runs)
  /\ ~runs[j].closed /\ runs'[j].closed

\* C26: when a run of chat c that observed a tool_interrupt closes its output
\* stream, the store holds the payload of the run's last interrupt for c, so
\* that a GET for c issued from then on returns it.
C26_SetBeforeClose ==
  [][\A j \in 1..Len(runs) :
       (Closes(j) /\ runs'[j].sb.s.calls # <<>>)
         => StoreGet(store', runs[j].chat)
              = Some(runs'[j].sb.s.calls[Len(runs'[j].sb.s.calls)].data)]_vars

\* C27: while a resume request of chat c waits for the answer of the upstream
\* resume call, the resumed stream has reported nothing and the store has no
\* entry for c; and c has no entry when the call is answered, with a stream or
\* with an error.
C27_ClearedBeforeResume ==
  /\ [](\A c \in Chats : ResumeWaiting(reqs, c) > 0 => StoreGet(store, c) = None)
  /\ [][\A c \in Chats :
          ResumeWaiting(reqs', c) < ResumeWaiting(reqs, c) => StoreGet(store', c) = None]_vars

RowsOf(rows, c) == SelectSeq(rows, LAMBDA r : r.chatId = c)

\* The store entry and the rows of every chat but c are left as they are.
OthersUntouched(c) ==
  \A b \in Chats \ {c} : store'[b] = store[b] /\ RowsOf(messages', b) = RowsOf(messages, b)

\* C28: a step that advances a run of chat c, or ends it with the write of its
\* mirror, leaves the store entry and the rows of every other chat as they are
\* and the state of every other run (buffer, accumulator, step flags,
\* annotation buffer, output) as it is; a step of a request handler of chat c
\* leaves the entry and rows of every other chat and every run that exists as
\* they are; a step in which a request arrives or a GET is answered touches
\* one chat at most and no run.
C28_ChatsIsolated ==
  /\ [][\A j \in 1..Len(runs) :
          (Len(runs') = Len(runs) /\ runs'[j] # runs[j])
            => /\ OthersUntouched(runs[j].chat)
               /\ \A i \in 1..Len(runs) : i # j => runs'[i] = runs[i]]_vars
  /\ [][Len(runs') < Len(runs)
          => \E j \in 1..Len(runs) :
               runs' = Remove(runs, j) /\ OthersUntouched(runs[j].chat)]_vars
  /\ [][\A i \in 1..Len(reqs) :
          (PostRoute(i) \/ PostSaved(i) \/ PostFetched(i))
            => /\ OthersUntouched(reqs[i].chat)
               /\ SubSeq(runs', 1, Len(runs)) = runs]_vars
  /\ [][(posted' # posted \/ response' # response)
          => (runs' = runs /\ \E c \in Chats : OthersUntouched(c))]_vars

\* C28 witness: a run of chat A and a run of chat B are open together, the run
\* of A reported an interrupt, the run of B has emitted records of its own,
\* and B has no entry.
C28_Witness ==
  /\ store["A"] # None /\ store["B"] = None
  /\ \E i \in 1..Len(runs), j \in 1..Len(runs) :
       /\ runs[i].chat = "A" /\ ~runs[i].closed /\ runs[i].sb.s.calls # <<>>
       /\ runs[j].chat = "B" /\ ~runs[j].closed /\ Len(runs[j].sb.s.out) > 1

\* The tool invocations with state "result" that saveAgentStream writes for
\* the records recs, as pairs of toolCallId and result.
PersistedResults(recs) ==
  LET rows == RowsToSave(recs)
  IN IF rows = <<>> THEN {}
     ELSE {[toolCallId |-> rows[1].parts[p].toolInvocation.toolCallId,
            result |-> rows[1].parts[p].toolInvocation.result] :
             p \in {p \in 1..Len(rows[1].parts) :
                      rows[1].parts[p].type = "tool-invocation"}}

\* C29: when the stream is closed, every tool call whose 9: record is followed
\* by an a: record with its toolCallId is written by the mirror as a tool
\* invocation with state "result" and that result.
C29_AnsweredCallsPersisted ==
  closed
    => \A i \in Records :
         (out[i].tag = "9" /\ \E j \in (i + 1)..Len(out) : IsResultFor(j, out[i].val.toolCallId))
           => \E j \in (i + 1)..Len(out) :
                /\ IsResultFor(j, out[i].val.toolCallId)
                /\ [toolCallId |-> out[i].val.toolCallId, result |-> out[j].val.result]
                     \in PersistedResults(out)

\* C30: the content "RESUME:<action>:<threadId>" that the client builds for an
\* action and a thread identifier is taken for the resume signal, and the
\* request sent to the upstream resume endpoint carries exactly that action
\* and that thread identifier, colons included.
C30_ResumeRoundTrip ==
  \A i \in 1..Len(reqs) :
    /\ reqs[i].pc = "route"
         => \A a \in ResumeActions, t \in ThreadIds :
              reqs[i].content = ResumeContent(a, t)
                => /\ IsResume(reqs[i])
                   /\ ResumeAction(reqs[i].content) = <<a>>
                   /\ ResumeThreadId(reqs[i].content) = t
    /\ reqs[i].pc = "resumeFetch"
         => /\ \E a \in ResumeActions, t \in ThreadIds : reqs[i].content = ResumeContent(a, t)
            /\ \A a \in ResumeActions, t \in ThreadIds :
                 reqs[i].content = ResumeContent(a, t)
                   => fetches = {[url |-> "/agent/resume", thread_id |-> t, action |-> <<a>>]}

\* C30 witness: the resume call was sent for a thread identifier with a colon
\* between two other symbols.
C30_Witness ==
  \E i \in 1..Len(reqs) :
    /\ reqs[i].pc = "resumeFetch"
    /\ \E f \in fetches :
         /\ Len(f.thread_id) = 3 /\ f.thread_id[2] = ":" /\ f.thread_id[1] # ":"
         /\ f.action = <<"skipped">>
         /\ reqs[i].content = ResumeContent("skipped", f.thread_id)

====
